---------------------------- MODULE Spec2Model ----------------------------
(***************************************************************************)
(* A model of the epub-builder crate: the Builder (src/src/epub.rs), the   *)
(* EpubContent description of a page (src/src/epub_content.rs), the        *)
(* ZipCommandOrLibrary wrapper (src/src/zip_command_or_library.rs) and the *)
(* string helpers (src/src/common.rs).                                     *)
(*                                                                         *)
(* Strings are sequences of Unicode code points, so that the character-    *)
(* wise conversions of the code (to_id, the href's backslash replacement,  *)
(* the escaping of a guide title) are computed as the code computes them.  *)
(* The table of contents (crate::toc) and the two concrete zip strategies  *)
(* (crate::zip_command, crate::zip_library) are not part of the sources at *)
(* hand; they are modelled from the specification and marked so.           *)
(***************************************************************************)
EXTENDS Integers, Sequences, FiniteSets, TLC

VARIABLES
    pc,          \* position of the session: "start", "zip", "open", "done", "failed"
    version,     \* Builder.version
    zip,         \* Builder.zip: the ZipCommandOrLibrary value
    files,       \* Builder.files: Vec<Content>
    metadata,    \* Builder.metadata
    toc,         \* Builder.toc: the forest of the Toc
    stylesheet,  \* Builder.stylesheet
    inline_toc,  \* Builder.inline_toc
    ret,         \* the last call made, its arguments and what it returned
    meta_calls,  \* number of metadata calls made so far (bounded)
    direct       \* the zip of a Builder<ZipLibrary> given the same calls with the same outcomes

vars == <<pc, version, zip, files, metadata, toc, stylesheet, inline_toc, ret, meta_calls, direct>>

-----------------------------------------------------------------------------
(* Bounds of the model *)

MaxFiles == 2        \* add_* / inline_toc / stylesheet calls are explored while Len(files) < MaxFiles
MaxMetaCalls == 4    \* metadata calls explored in SpecMeta
MaxTocAdds == 4      \* Toc.add calls explored in SpecToc
MaxIdLen == 2        \* length of the strings given to to_id in SpecId

-----------------------------------------------------------------------------
(* String literals of the code, as code points *)

S_empty == << >>
\* "OEBPS"
S_OEBPS == <<79, 69, 66, 80, 83>>
\* "stylesheet.css"
S_stylesheet_css == <<115, 116, 121, 108, 101, 115, 104, 101, 101, 116, 46, 99, 115, 115>>
\* "toc.xhtml"
S_toc_xhtml == <<116, 111, 99, 46, 120, 104, 116, 109, 108>>
\* "cover-image"
S_cover_image == <<99, 111, 118, 101, 114, 45, 105, 109, 97, 103, 101>>
\* "Table Of Contents"
S_Table_Of_Contents == <<84, 97, 98, 108, 101, 32, 79, 102, 32, 67, 111, 110, 116, 101, 110, 116, 115>>
\* "en"
S_en == <<101, 110>>
\* "Rust EPUB library"
S_Rust_EPUB_library == <<82, 117, 115, 116, 32, 69, 80, 85, 66, 32, 108, 105, 98, 114, 97, 114, 121>>
\* "META-INF/container.xml"
S_container_xml == <<77, 69, 84, 65, 45, 73, 78, 70, 47, 99, 111, 110, 116, 97, 105, 110, 101, 114, 46, 120, 109, 108>>
\* "META-INF/com.apple.ibooks.display-options.xml"
S_ibooks_xml == <<77, 69, 84, 65, 45, 73, 78, 70, 47, 99, 111, 109, 46, 97, 112, 112, 108, 101, 46, 105, 98, 111,
                  111, 107, 115, 46, 100, 105, 115, 112, 108, 97, 121, 45, 111, 112, 116, 105, 111, 110, 115,
                  46, 120, 109, 108>>
\* "OEBPS/content.opf", "OEBPS/toc.ncx", "OEBPS/nav.xhtml", "OEBPS/toc.xhtml"
S_content_opf == <<79, 69, 66, 80, 83, 47, 99, 111, 110, 116, 101, 110, 116, 46, 111, 112, 102>>
S_toc_ncx == <<79, 69, 66, 80, 83, 47, 116, 111, 99, 46, 110, 99, 120>>
S_nav_xhtml == <<79, 69, 66, 80, 83, 47, 110, 97, 118, 46, 120, 104, 116, 109, 108>>
S_OEBPS_toc_xhtml == <<79, 69, 66, 80, 83, 47, 116, 111, 99, 46, 120, 104, 116, 109, 108>>
\* "&amp;", "&lt;", "&gt;", "&quot;"
S_amp == <<38, 97, 109, 112, 59>>
S_lt == <<38, 108, 116, 59>>
S_gt == <<38, 103, 116, 59>>
S_quot == <<38, 113, 117, 111, 116, 59>>
\* "café/im g.png"
S_cafe_im_g_png == <<99, 97, 102, 233, 47, 105, 109, 32, 103, 46, 112, 110, 103>>
\* "mimetype"
S_mimetype == <<109, 105, 109, 101, 116, 121, 112, 101>>

Last(s) == s[Len(s)]

\* Path::new(a).join(b) for a relative b, with '/' as the separator
PathJoin(a, b) == a \o <<47>> \o b

-----------------------------------------------------------------------------
(* The identifier sanitizer *)

InRange(c, lo, hi) == lo <= c /\ c <= hi

is_id_char(c) ==
    \/ InRange(c, 65, 90)              \* is_ascii_uppercase
    \/ c = 95                          \* '_'
    \/ InRange(c, 97, 122)             \* is_ascii_lowercase
    \/ InRange(c, 192, 214)            \* C0..D6
    \/ InRange(c, 216, 246)            \* D8..F6
    \/ InRange(c, 248, 767)            \* F8..2FF
    \/ InRange(c, 880, 893)            \* 370..37D
    \/ InRange(c, 895, 8191)           \* 37F..1FFF
    \/ InRange(c, 8204, 8205)          \* 200C..200D
    \/ InRange(c, 8304, 8591)          \* 2070..218F
    \/ InRange(c, 11264, 12271)        \* 2C00..2FEF
    \/ InRange(c, 12289, 55295)        \* 3001..D7FF
    \/ InRange(c, 63744, 64975)        \* F900..FDCF
    \/ InRange(c, 65008, 65533)        \* FDF0..FFFD
    \/ InRange(c, 65536, 983039)       \* 10000..EFFFF
    \/ c = 45                          \* '-'
    \/ c = 46                          \* '.'
    \/ InRange(c, 48, 57)              \* is_ascii_digit
    \/ c = 183                         \* B7
    \/ InRange(c, 768, 879)            \* 0300..036F
    \/ InRange(c, 8255, 8256)          \* 203F..2040

\* to_id removing the characters that are no id characters
to_id_removing(s) == SelectSeq(s, is_id_char)

\* to_id: s.replace(|c| !is_id_char(c), "_")
to_id(s) == [i \in 1..Len(s) |-> IF is_id_char(s[i]) THEN s[i] ELSE 95]

-----------------------------------------------------------------------------
(* String conversions used when the manifest is rendered *)

RECURSIVE ReplaceChar(_, _, _)
\* str::replace(from, to) for a one-character pattern
ReplaceChar(s, from, to) ==
    IF s = << >> THEN << >>
    ELSE (IF Head(s) = from THEN to ELSE <<Head(s)>>) \o ReplaceChar(Tail(s), from, to)

\* content.file.replace('\\', "/")
href_of(file) == ReplaceChar(file, 92, <<47>>)

\* common::escape_quote
escape_quote(s) ==
    IF \E i \in 1..Len(s) : s[i] = 34 THEN ReplaceChar(s, 34, S_quot) ELSE s

RECURSIVE encode_text(_)
\* html_escape::encode_text: escapes '&', '<' and '>'
encode_text(s) ==
    IF s = << >> THEN << >>
    ELSE (CASE Head(s) = 38 -> S_amp
            [] Head(s) = 60 -> S_lt
            [] Head(s) = 62 -> S_gt
            [] OTHER -> <<Head(s)>>) \o encode_text(Tail(s))

-----------------------------------------------------------------------------
(* Result<T>: Ok(v) and Err(e) *)

Ok(v) == [ok |-> TRUE, val |-> v]
Err(e) == [ok |-> FALSE, err |-> e]

-----------------------------------------------------------------------------
(* The two zip strategies (crate::zip_command, crate::zip_library).  Each   *)
(* keeps the entries it was given, in the order of the write_file calls,   *)
(* and is finalized by generate.  self.entries, self.finalized stand for    *)
(* the strategy's staging area and its output; an entry and the output     *)
(* carry the name of the strategy that wrote them.                          *)

\* ZipCommand::new(): the external-tool strategy, not yet probed
ZipCommand_new ==
    Ok([kind |-> "ZipCommand", command |-> "zip", entries |-> << >>,
        finalized |-> FALSE, finalized_by |-> "nobody", archive |-> << >>])

\* ZipCommand::command(name): sets the executable to run
ZipCommand_command(self, command) == [self EXCEPT !.command = command]

\* ZipCommand::test(): the probe; `available` is whether the executable runs on the system
ZipCommand_test(self, available) == IF available THEN Ok("tested") ELSE Err("Unavailable")

\* ZipLibrary::new(): the embedded-library strategy, always available
ZipLibrary_new ==
    Ok([kind |-> "ZipLibrary", entries |-> << >>, finalized |-> FALSE, finalized_by |-> "nobody",
        archive |-> << >>])

\* write_file of the strategy `by`; `io_ok` is whether the write succeeds
Strategy_write_file(self, path, content, io_ok, by) ==
    IF io_ok
    THEN [ok |-> TRUE,
          self |-> [self EXCEPT !.entries = Append(@, [path |-> path, content |-> content, by |-> by])]]
    ELSE [ok |-> FALSE, self |-> self]

ZipCommand_write_file(self, path, content, io_ok) ==
    Strategy_write_file(self, path, content, io_ok, "ZipCommand")

ZipLibrary_write_file(self, path, content, io_ok) ==
    Strategy_write_file(self, path, content, io_ok, "ZipLibrary")

\* the marker entry of the container format: "mimetype", stored without compression
Marker ==
    [path |-> S_mimetype, content |-> [doc |-> "raw", bytes |-> "application/epub+zip"],
     stored |-> TRUE]

\* the archive a strategy puts out: the marker, then the entries in the order
\* of the write_file calls, compressed
Strategy_archive(entries) ==
    <<Marker>> \o [i \in 1..Len(entries) |->
                     [path |-> entries[i].path, content |-> entries[i].content, stored |-> FALSE]]

\* generate of the strategy `by`; `io_ok` is whether finalizing succeeds
Strategy_generate(self, io_ok, by) ==
    IF io_ok
    THEN [ok |-> TRUE,
          self |-> [self EXCEPT !.finalized = TRUE, !.finalized_by = by,
                                !.archive = Strategy_archive(self.entries)]]
    ELSE [ok |-> FALSE, self |-> self]

ZipCommand_generate(self, io_ok) == Strategy_generate(self, io_ok, "ZipCommand")

ZipLibrary_generate(self, io_ok) == Strategy_generate(self, io_ok, "ZipLibrary")

-----------------------------------------------------------------------------
(* ZipCommandOrLibrary *)

\* The value before ZipCommandOrLibrary::new has run
NoZip ==
    [tag |-> "None",
     inner |-> [kind |-> "None", entries |-> << >>, finalized |-> FALSE, finalized_by |-> "nobody",
                archive |-> << >>]]

\* ZipCommandOrLibrary::new without the or_else: the error of the probe is returned
ZipCommandOrLibrary_new_no_fallback(command, available) ==
    LET z == ZipCommand_command(ZipCommand_new.val, command)
        t == ZipCommand_test(z, available)
    IN  [result |-> IF t.ok THEN Ok([tag |-> "Command", inner |-> z]) ELSE t,
         probes |-> 1,
         probe_ok |-> t.ok,
         library_news |-> 0]

\* ZipCommandOrLibrary::new(command); `available` is the outcome of the probe on this system.
\* The result carries, next to the Result itself, the calls the chain made.
ZipCommandOrLibrary_new(command, available) ==
    LET r1 == ZipCommand_new
        \* .map(|mut z| { z.command(command); z })
        r2 == IF r1.ok THEN Ok(ZipCommand_command(r1.val, command)) ELSE r1
        \* .and_then(|z| z.test().map(|_| z))
        probed == r2.ok
        t  == ZipCommand_test(r2.val, available)
        r3 == IF r2.ok THEN (IF t.ok THEN Ok(r2.val) ELSE t) ELSE r2
        \* .map(ZipCommandOrLibrary::Command)
        r4 == IF r3.ok THEN Ok([tag |-> "Command", inner |-> r3.val]) ELSE r3
        \* .or_else(|_| ZipLibrary::new().map(ZipCommandOrLibrary::Library))
        l  == ZipLibrary_new
        r5 == IF r4.ok THEN r4
              ELSE (IF l.ok THEN Ok([tag |-> "Library", inner |-> l.val]) ELSE l)
    IN  [result |-> r5,
         probes |-> IF probed THEN 1 ELSE 0,
         probe_ok |-> probed /\ t.ok,
         library_news |-> IF r4.ok THEN 0 ELSE 1]

\* write_file with the arms of the match exchanged
ZipCommandOrLibrary_write_file_swapped(self, path, content, io_ok) ==
    LET r == IF self.tag = "Command"
             THEN ZipLibrary_write_file(self.inner, path, content, io_ok)
             ELSE ZipCommand_write_file(self.inner, path, content, io_ok)
    IN  [ok |-> r.ok, self |-> [self EXCEPT !.inner = r.self]]

\* impl Zip for ZipCommandOrLibrary: write_file
ZipCommandOrLibrary_write_file(self, path, content, io_ok) ==
    LET r == IF self.tag = "Command"
             THEN ZipCommand_write_file(self.inner, path, content, io_ok)
             ELSE ZipLibrary_write_file(self.inner, path, content, io_ok)
    IN  [ok |-> r.ok, self |-> [self EXCEPT !.inner = r.self]]

\* impl Zip for ZipCommandOrLibrary: generate
ZipCommandOrLibrary_generate(self, io_ok) ==
    LET r == IF self.tag = "Command"
             THEN ZipCommand_generate(self.inner, io_ok)
             ELSE ZipLibrary_generate(self.inner, io_ok)
    IN  [ok |-> r.ok, self |-> [self EXCEPT !.inner = r.self]]

-----------------------------------------------------------------------------
(* Builder<Z: Zip>: self.zip is a ZipCommandOrLibrary or, in the session    *)
(* that uses the embedded-library strategy directly, a ZipLibrary.         *)

\* self.zip.write_file(path, content), for the Z of the Builder
Zip_write_file(z, path, content, io_ok) ==
    IF "tag" \in DOMAIN z
    THEN ZipCommandOrLibrary_write_file(z, path, content, io_ok)
    ELSE ZipLibrary_write_file(z, path, content, io_ok)

\* self.zip.generate(to), for the Z of the Builder
Zip_generate(z, io_ok) ==
    IF "tag" \in DOMAIN z
    THEN ZipCommandOrLibrary_generate(z, io_ok)
    ELSE ZipLibrary_generate(z, io_ok)

-----------------------------------------------------------------------------
(* The table of contents (crate::toc): a forest of elements, each owning   *)
(* its children.                                                           *)

\* Element::new(url, title): a node of level 1 without children
Element_new(url, title) == [url |-> url, title |-> title, level |-> 1, children |-> << >>]

\* Element::level(level): sets the level of the node
Element_level(self, level) == [self EXCEPT !.level = level]

\* Toc::new(): the empty forest
Toc_new == << >>

RECURSIVE Toc_add(_, _)
\* Toc::add(element): descends along the most recently added nodes while the
\* new element is deeper than the node at hand, and appends it there.
Toc_add(elements, element) ==
    IF elements # << >> /\ element.level > Last(elements).level
    THEN [elements EXCEPT ![Len(elements)].children = Toc_add(@, element)]
    ELSE Append(elements, element)

RECURSIVE CountNodes(_)
\* the number of nodes of a forest
CountNodes(elements) ==
    IF elements = << >> THEN 0
    ELSE 1 + CountNodes(Head(elements).children) + CountNodes(Tail(elements))

-----------------------------------------------------------------------------
(* EpubContent (epub_content.rs) *)

ReferenceTypes ==
    {"Cover", "TitlePage", "Toc", "Index", "Glossary", "Acknowledgements", "Bibliography",
     "Colophon", "Copyright", "Dedication", "Epigraph", "Foreword", "Loi", "Lot", "Notes",
     "Preface", "Text"}

\* Option<ReferenceType>::None
None == "None"

EpubContent_new(href, content) ==
    [content |-> content, toc |-> Element_new(href, S_empty), reftype |-> None]

EpubContent_title(self, title) == [self EXCEPT !.toc.title = title]

\* EpubContent::level that leaves the level as it is
EpubContent_level_ignored(self, level) == self

EpubContent_level(self, level) == [self EXCEPT !.toc = Element_level(@, level)]

EpubContent_reftype(self, reftype) == [self EXCEPT !.reftype = reftype]

-----------------------------------------------------------------------------
(* Builder state (epub.rs) *)

Versions == {"V20", "V30"}

\* Version derives PartialOrd: V20 < V30
VersionRank(v) == IF v = "V20" THEN 0 ELSE 1

\* Option<String>: None and Some(v)
NoLicense == << >>
Some(v) == <<v>>

Metadata_new ==
    [title |-> S_empty,
     author |-> << >>,
     lang |-> S_en,
     generator |-> S_Rust_EPUB_library,
     toc_name |-> S_Table_Of_Contents,
     description |-> << >>,
     subject |-> << >>,
     license |-> NoLicense]

Content_new(file, mime) ==
    [file |-> file, mime |-> mime, itemref |-> FALSE, cover |-> FALSE,
     reftype |-> None, title |-> S_empty]

-----------------------------------------------------------------------------
(* Builder::metadata *)

MetadataKinds ==
    {"Author", "Title", "Lang", "Generator", "TocName", "Subject", "Description", "License"}

\* metadata_set with the empty-string test of Subject left out
metadata_set_subject_keeps(md, key, value) ==
    CASE key = "Author" ->
            IF value = S_empty THEN [md EXCEPT !.author = << >>]
            ELSE [md EXCEPT !.author = Append(@, value)]
      [] key = "Title" -> [md EXCEPT !.title = value]
      [] key = "Lang" -> [md EXCEPT !.lang = value]
      [] key = "Generator" -> [md EXCEPT !.generator = value]
      [] key = "Description" ->
            IF value = S_empty THEN [md EXCEPT !.description = << >>]
            ELSE [md EXCEPT !.description = Append(@, value)]
      [] key = "Subject" -> [md EXCEPT !.subject = Append(@, value)]
      [] key = "License" -> [md EXCEPT !.license = Some(value)]
      [] key = "TocName" -> [md EXCEPT !.toc_name = value]

\* The match of Builder::metadata: the metadata after metadata(key, value)
metadata_set(md, key, value) ==
    CASE key = "Author" ->
            IF value = S_empty THEN [md EXCEPT !.author = << >>]
            ELSE [md EXCEPT !.author = Append(@, value)]
      [] key = "Title" -> [md EXCEPT !.title = value]
      [] key = "Lang" -> [md EXCEPT !.lang = value]
      [] key = "Generator" -> [md EXCEPT !.generator = value]
      [] key = "Description" ->
            IF value = S_empty THEN [md EXCEPT !.description = << >>]
            ELSE [md EXCEPT !.description = Append(@, value)]
      [] key = "Subject" ->
            IF value = S_empty THEN [md EXCEPT !.subject = << >>]
            ELSE [md EXCEPT !.subject = Append(@, value)]
      [] key = "License" -> [md EXCEPT !.license = Some(value)]
      [] key = "TocName" -> [md EXCEPT !.toc_name = value]

-----------------------------------------------------------------------------
(* Builder::render_opf and Builder::render_nav: the data handed to the     *)
(* templates.  An item, an itemref, a guide reference and a landmark are   *)
(* the records of the values the code formats into one line each.          *)

\* opf_id without the cover override
opf_id_no_override(content) == to_id(content.file)

\* the id of a manifest item
opf_id(content) == IF content.cover THEN S_cover_image ELSE to_id(content.file)

\* opf_properties without the version test
opf_properties_any_version(ver, content) ==
    IF content.cover THEN "cover-image" ELSE ""

\* properties="cover-image" is written for the cover under V30 only
opf_properties(ver, content) ==
    IF ver = "V30" /\ content.cover THEN "cover-image" ELSE ""

opf_item(ver, content) ==
    [mime |-> content.mime,
     properties |-> opf_properties(ver, content),
     id |-> opf_id(content),
     href |-> href_of(content.file)]

\* the token of a reference type in the guide of content.opf
guide_reftype(reftype) ==
    CASE reftype = "Cover" -> "cover"
      [] reftype = "TitlePage" -> "title-page"
      [] reftype = "Toc" -> "toc"
      [] reftype = "Index" -> "index"
      [] reftype = "Glossary" -> "glossary"
      [] reftype = "Acknowledgements" -> "acknowledgements"
      [] reftype = "Bibliography" -> "bibliography"
      [] reftype = "Colophon" -> "colophon"
      [] reftype = "Copyright" -> "copyright"
      [] reftype = "Dedication" -> "dedication"
      [] reftype = "Epigraph" -> "epigraph"
      [] reftype = "Foreword" -> "foreword"
      [] reftype = "Loi" -> "loi"
      [] reftype = "Lot" -> "lot"
      [] reftype = "Notes" -> "notes"
      [] reftype = "Preface" -> "preface"
      [] reftype = "Text" -> "text"

\* the token of a reference type in the landmarks of nav.xhtml
landmark_reftype(reftype) ==
    CASE reftype = "Cover" -> "cover"
      [] reftype = "Text" -> "bodymatter"
      [] reftype = "Toc" -> "toc"
      [] reftype = "Bibliography" -> "bibliography"
      [] reftype = "Epigraph" -> "epigraph"
      [] reftype = "Foreword" -> "foreword"
      [] reftype = "Preface" -> "preface"
      [] reftype = "Notes" -> "endnotes"
      [] reftype = "Loi" -> "loi"
      [] reftype = "Lot" -> "lot"
      [] reftype = "Colophon" -> "colophon"
      [] reftype = "TitlePage" -> "titlepage"
      [] reftype = "Index" -> "index"
      [] reftype = "Glossary" -> "glossary"
      [] reftype = "Copyright" -> "copyright-page"
      [] reftype = "Acknowledgements" -> "acknowledgements"
      [] reftype = "Dedication" -> "dedication"

\* opf_has_guide with the title test of the landmarks
opf_has_guide_titled(content) == content.reftype # None /\ content.title # S_empty

\* whether the loop of render_opf pushes a guide reference for this file
opf_has_guide(content) == content.reftype # None

opf_guide(content) ==
    [reftype |-> guide_reftype(content.reftype),
     title |-> escape_quote(encode_text(content.title)),
     href |-> content.file]

\* opf_itemrefs without the itemref test: every file enters the spine
opf_itemrefs_all(fs) == [i \in 1..Len(fs) |-> opf_id(fs[i])]

RECURSIVE opf_itemrefs(_)
opf_itemrefs(fs) ==
    IF fs = << >> THEN << >>
    ELSE (IF Head(fs).itemref THEN <<opf_id(Head(fs))>> ELSE << >>) \o opf_itemrefs(Tail(fs))

RECURSIVE opf_guides(_)
opf_guides(fs) ==
    IF fs = << >> THEN << >>
    ELSE (IF opf_has_guide(Head(fs)) THEN <<opf_guide(Head(fs))>> ELSE << >>) \o opf_guides(Tail(fs))

RECURSIVE opf_cover_metas(_)
opf_cover_metas(fs) ==
    IF fs = << >> THEN << >>
    ELSE (IF Head(fs).cover THEN <<[tag |-> "meta-cover", text |-> S_cover_image]>> ELSE << >>)
         \o opf_cover_metas(Tail(fs))

opf_optional(md, fs) ==
    [i \in 1..Len(md.description) |-> [tag |-> "dc:description", text |-> md.description[i]]]
    \o [i \in 1..Len(md.subject) |-> [tag |-> "dc:subject", text |-> md.subject[i]]]
    \o [i \in 1..Len(md.license) |-> [tag |-> "dc:rights", text |-> md.license[i]]]
    \o opf_cover_metas(fs)

\* Builder::render_opf
render_opf(ver, md, fs) ==
    [doc |-> "content.opf",
     version |-> ver,
     optional |-> opf_optional(md, fs),
     items |-> [i \in 1..Len(fs) |-> opf_item(ver, fs[i])],
     itemrefs |-> opf_itemrefs(fs),
     guide |-> opf_guides(fs)]

\* whether the loop of render_nav pushes a landmark for this file
nav_has_landmark(file) == file.reftype # None /\ file.title # S_empty

nav_landmark(file) ==
    [reftype |-> landmark_reftype(file.reftype), href |-> file.file, title |-> file.title]

RECURSIVE nav_landmarks_of(_)
nav_landmarks_of(fs) ==
    IF fs = << >> THEN << >>
    ELSE (IF nav_has_landmark(Head(fs)) THEN <<nav_landmark(Head(fs))>> ELSE << >>)
         \o nav_landmarks_of(Tail(fs))

\* nav_landmarks without the version test
nav_landmarks_any_version(ver, fs) == nav_landmarks_of(fs)

\* the landmarks of render_nav: only for a version above V20
nav_landmarks(ver, fs) ==
    IF VersionRank(ver) > VersionRank("V20") THEN nav_landmarks_of(fs) ELSE << >>

\* Toc::render(numbered): the nested list of the forest, handed to the template as it is
Toc_render(elements, numbered) == [numbered |-> numbered, elements |-> elements]

RECURSIVE Toc_render_epub_from(_, _)
\* Element::render_epub(offset) over a sequence of siblings: each node takes
\* the number after `offset`, its children the numbers after its own, the
\* sibling after it the numbers after those
Toc_render_epub_from(elements, offset) ==
    IF elements = << >> THEN << >>
    ELSE LET h == Head(elements)
             sub == Toc_render_epub_from(h.children, offset + 1)
         IN  <<[url |-> h.url, title |-> h.title, sequence_number |-> offset + 1]>>
             \o sub \o Toc_render_epub_from(Tail(elements), offset + 1 + Len(sub))

\* Toc::render_epub(): the navigation points of the forest, handed to the template
Toc_render_epub(elements) == Toc_render_epub_from(elements, 0)

\* Builder::render_nav(numbered)
render_nav(ver, md, fs, elements, numbered) ==
    [doc |-> "nav.xhtml",
     version |-> ver,
     content |-> Toc_render(elements, numbered),
     landmarks |-> nav_landmarks(ver, fs)]

\* render_toc listing the top-level elements only
render_toc_roots_only(md, elements) ==
    [doc |-> "toc.ncx", toc_name |-> md.toc_name,
     nav_points |-> Toc_render_epub([i \in 1..Len(elements) |->
                                        [elements[i] EXCEPT !.children = << >>]])]

\* Builder::render_toc
render_toc(md, elements) ==
    [doc |-> "toc.ncx", toc_name |-> md.toc_name, nav_points |-> Toc_render_epub(elements)]

-----------------------------------------------------------------------------
(* The handlers of Builder, as functions of the fields they read.  `io_ok` *)
(* is whether the backend's write succeeds.                                 *)

\* the bytes of a file or of a template constant, as an entry's content
Raw(bytes) == [doc |-> "raw", bytes |-> bytes]

\* Builder::new writing the marker itself before the boilerplate entries
Builder_new_writes_marker(z, io_ok1, io_ok2) ==
    LET w0 == Zip_write_file(z, S_mimetype, Raw("application/epub+zip"), TRUE)
        w1 == Zip_write_file(w0.self, S_container_xml, Raw("CONTAINER"), io_ok1)
        w2 == Zip_write_file(w1.self, S_ibooks_xml, Raw("IBOOKS"), io_ok2)
    IN  IF ~w1.ok THEN [ok |-> FALSE, zip |-> w1.self]
        ELSE [ok |-> w2.ok, zip |-> w2.self]

\* Builder::new: the two boilerplate entries; an error of either is returned
Builder_new(z, io_ok1, io_ok2) ==
    LET w1 == Zip_write_file(z, S_container_xml, Raw("CONTAINER"), io_ok1)
        w2 == Zip_write_file(w1.self, S_ibooks_xml, Raw("IBOOKS"), io_ok2)
    IN  IF ~w1.ok THEN [ok |-> FALSE, zip |-> w1.self]
        ELSE [ok |-> w2.ok, zip |-> w2.self]

\* add_resource putting the new resource in front of the registry
add_resource_in_front(z, fs, path, content, mime_type, io_ok) ==
    LET w == Zip_write_file(z, PathJoin(S_OEBPS, path), content, io_ok)
    IN  IF ~w.ok THEN [ok |-> FALSE, zip |-> w.self, files |-> fs]
        ELSE [ok |-> TRUE, zip |-> w.self, files |-> <<Content_new(path, mime_type)>> \o fs]

\* Builder::add_resource
add_resource(z, fs, path, content, mime_type, io_ok) ==
    LET w == Zip_write_file(z, PathJoin(S_OEBPS, path), content, io_ok)
    IN  IF ~w.ok THEN [ok |-> FALSE, zip |-> w.self, files |-> fs]
        ELSE [ok |-> TRUE, zip |-> w.self, files |-> Append(fs, Content_new(path, mime_type))]

\* add_cover_image registering the cover before the entry is written
add_cover_image_registering_first(z, fs, path, content, mime_type, io_ok) ==
    LET w == Zip_write_file(z, PathJoin(S_OEBPS, path), content, io_ok)
        file == [Content_new(path, mime_type) EXCEPT !.cover = TRUE]
    IN  [ok |-> w.ok, zip |-> w.self, files |-> Append(fs, file)]

\* Builder::add_cover_image
add_cover_image(z, fs, path, content, mime_type, io_ok) ==
    LET w == Zip_write_file(z, PathJoin(S_OEBPS, path), content, io_ok)
        file == [Content_new(path, mime_type) EXCEPT !.cover = TRUE]
    IN  IF ~w.ok THEN [ok |-> FALSE, zip |-> w.self, files |-> fs]
        ELSE [ok |-> TRUE, zip |-> w.self, files |-> Append(fs, file)]

\* the Content that add_content registers for an EpubContent
add_content_file(content) ==
    LET file0 == [Content_new(content.toc.url, "application/xhtml+xml")
                    EXCEPT !.itemref = TRUE, !.reftype = content.reftype]
    IN  IF file0.reftype # None THEN [file0 EXCEPT !.title = content.toc.title] ELSE file0

\* add_content with the title test left out: every content enters the TOC
add_content_untitled_in_toc(z, fs, elements, content, io_ok) ==
    LET w == Zip_write_file(z, PathJoin(S_OEBPS, content.toc.url), content.content, io_ok)
    IN  IF ~w.ok THEN [ok |-> FALSE, zip |-> w.self, files |-> fs, toc |-> elements]
        ELSE [ok |-> TRUE, zip |-> w.self,
              files |-> Append(fs, add_content_file(content)),
              toc |-> Toc_add(elements, content.toc)]

\* Builder::add_content
add_content(z, fs, elements, content, io_ok) ==
    LET w == Zip_write_file(z, PathJoin(S_OEBPS, content.toc.url), content.content, io_ok)
    IN  IF ~w.ok THEN [ok |-> FALSE, zip |-> w.self, files |-> fs, toc |-> elements]
        ELSE [ok |-> TRUE, zip |-> w.self,
              files |-> Append(fs, add_content_file(content)),
              toc |-> IF content.toc.title # S_empty
                      THEN Toc_add(elements, content.toc) ELSE elements]

\* Builder::stylesheet
stylesheet_set(z, fs, st, content, io_ok) ==
    LET r == add_resource(z, fs, S_stylesheet_css, content, "text/css", io_ok)
    IN  IF ~r.ok THEN [ok |-> FALSE, zip |-> r.zip, files |-> r.files, stylesheet |-> st]
        ELSE [ok |-> TRUE, zip |-> r.zip, files |-> r.files, stylesheet |-> TRUE]

\* the Content that inline_toc registers
inline_toc_file(md) ==
    [Content_new(S_toc_xhtml, "application/xhtml+xml")
        EXCEPT !.reftype = "Toc", !.title = md.toc_name, !.itemref = TRUE]

\* Builder::inline_toc
inline_toc_set(fs, elements, md) ==
    [inline_toc |-> TRUE,
     toc |-> Toc_add(elements, Element_new(S_toc_xhtml, md.toc_name)),
     files |-> Append(fs, inline_toc_file(md))]

RECURSIVE WriteAll(_, _)
\* consecutive successful write_file calls
WriteAll(z, docs) ==
    IF docs = << >> THEN z
    ELSE WriteAll(Zip_write_file(z, Head(docs).path, Head(docs).content, TRUE).self,
                  Tail(docs))

\* The points where Builder::generate can return an error: the write of the
\* dummy stylesheet (1), the rendering or the write of one of the four
\* documents (2..5), the backend's generate (6); 0 is no failure.
GenerateFailures ==
    {[at |-> 0, kind |-> "none"], [at |-> 1, kind |-> "write"], [at |-> 6, kind |-> "generate"]}
    \cup [at : 2..5, kind : {"render", "write"}]

\* generate_docs writing toc.xhtml whether or not inline_toc was called
generate_docs_always_inline(ver, md, fs, elements, inline) ==
    <<[path |-> S_content_opf, content |-> render_opf(ver, md, fs)],
      [path |-> S_toc_ncx, content |-> render_toc(md, elements)],
      [path |-> S_nav_xhtml, content |-> render_nav(ver, md, fs, elements, TRUE)],
      [path |-> S_OEBPS_toc_xhtml, content |-> render_nav(ver, md, fs, elements, FALSE)]>>

\* generate_docs writing nav.xhtml before content.opf
generate_docs_nav_first(ver, md, fs, elements, inline) ==
    <<[path |-> S_nav_xhtml, content |-> render_nav(ver, md, fs, elements, TRUE)],
      [path |-> S_content_opf, content |-> render_opf(ver, md, fs)],
      [path |-> S_toc_ncx, content |-> render_toc(md, elements)]>>
    \o (IF inline
        THEN <<[path |-> S_OEBPS_toc_xhtml, content |-> render_nav(ver, md, fs, elements, FALSE)]>>
        ELSE << >>)

\* The documents Builder::generate renders and writes, in the order of the code
generate_docs(ver, md, fs, elements, inline) ==
    <<[path |-> S_content_opf, content |-> render_opf(ver, md, fs)],
      [path |-> S_toc_ncx, content |-> render_toc(md, elements)],
      [path |-> S_nav_xhtml, content |-> render_nav(ver, md, fs, elements, TRUE)]>>
    \o (IF inline
        THEN <<[path |-> S_OEBPS_toc_xhtml, content |-> render_nav(ver, md, fs, elements, FALSE)]>>
        ELSE << >>)

\* generate going on after a failed step: the error is dropped, the documents
\* left are written and the backend's generate is called
generate_ignoring_errors(z, fs, st, ver, md, elements, inline, fail) ==
    LET s == IF ~st THEN stylesheet_set(z, fs, st, Raw(""), fail.at # 1)
             ELSE [ok |-> TRUE, zip |-> z, files |-> fs, stylesheet |-> st]
        docs == generate_docs(ver, md, s.files, elements, inline)
        z2 == WriteAll(s.zip, docs)
        g == Zip_generate(z2, fail.at # 6)
    IN  [ok |-> g.ok, err |-> IF g.ok THEN "none" ELSE "generate",
         zip |-> g.self, files |-> s.files, stylesheet |-> s.stylesheet,
         finalize_called |-> TRUE]

\* Builder::generate
generate(z, fs, st, ver, md, elements, inline, fail) ==
    LET s == IF ~st THEN stylesheet_set(z, fs, st, Raw(""), fail.at # 1)
             ELSE [ok |-> TRUE, zip |-> z, files |-> fs, stylesheet |-> st]
        docs == generate_docs(ver, md, s.files, elements, inline)
        \* the number of documents written before the failure, if one of them fails
        reached == IF fail.at \in 2..5 /\ fail.at - 1 <= Len(docs) THEN fail.at - 2 ELSE Len(docs)
        failed_doc == fail.at \in 2..5 /\ fail.at - 1 <= Len(docs)
        z2 == WriteAll(s.zip, SubSeq(docs, 1, reached))
        g == Zip_generate(z2, fail.at # 6)
    IN  IF ~s.ok
        THEN [ok |-> FALSE, err |-> "write", zip |-> s.zip, files |-> s.files,
              stylesheet |-> s.stylesheet, finalize_called |-> FALSE]
        ELSE IF failed_doc
        THEN [ok |-> FALSE, err |-> fail.kind, zip |-> z2, files |-> s.files,
              stylesheet |-> s.stylesheet, finalize_called |-> FALSE]
        ELSE [ok |-> g.ok, err |-> IF g.ok THEN "none" ELSE "generate",
              zip |-> g.self, files |-> s.files, stylesheet |-> s.stylesheet,
              finalize_called |-> TRUE]

-----------------------------------------------------------------------------
(* Inputs *)

\* "a/b" and "c\d": a path with a character that is no id character, and one
\* with a backslash
Paths == {<<97, 47, 98>>, <<99, 92, 100>>}

\* "" and "<A"" (a title with characters the guide escapes)
Titles == {S_empty, <<60, 65, 34>>}

\* the levels given to EpubContent::level in the builder session
BuilderLevels == {1, 2}

\* the reference types given to EpubContent::reftype, and none given
BuilderReftypes == {None, "Text"}

\* the outcomes of generate explored in the builder session: no failure, the
\* rendering of content.opf fails, the write of nav.xhtml fails, the backend's
\* generate fails
BuilderGenerateFailures ==
    {[at |-> 0, kind |-> "none"], [at |-> 2, kind |-> "render"],
     [at |-> 4, kind |-> "write"], [at |-> 6, kind |-> "generate"]}

\* the values of metadata: "", "x", "y"
MetaValues == {S_empty, <<120>>, <<121>>}

\* the values toc_name is set to in the builder session: "" and "T"
BuilderTocNames == {S_empty, <<84>>}

-----------------------------------------------------------------------------
(* The session of one Builder over a ZipCommandOrLibrary *)

Init ==
    /\ pc = "start"
    /\ version = "V20"
    /\ zip = NoZip
    /\ files = << >>
    /\ metadata = Metadata_new
    /\ toc = Toc_new
    /\ stylesheet = FALSE
    /\ inline_toc = FALSE
    /\ ret = [op |-> "none", ok |-> TRUE, args |-> << >>]
    /\ meta_calls = 0
    /\ direct = NoZip.inner

\* ZipCommandOrLibrary::new("zip")
NewZip ==
    /\ pc = "start"
    /\ \E available \in BOOLEAN :
          LET r == ZipCommandOrLibrary_new("zip", available)
          IN  /\ zip' = IF r.result.ok THEN r.result.val ELSE zip
              /\ pc' = IF r.result.ok THEN "zip" ELSE "failed"
              /\ ret' = [op |-> "ZipCommandOrLibrary::new", ok |-> r.result.ok,
                         args |-> [available |-> available, probes |-> r.probes,
                                   probe_ok |-> r.probe_ok, library_news |-> r.library_news]]
    \* the session over the embedded-library strategy alone: ZipLibrary::new()
    /\ direct' = ZipLibrary_new.val
    /\ UNCHANGED <<version, files, metadata, toc, stylesheet, inline_toc, meta_calls>>

\* Builder::new(zip)
BuilderNew ==
    /\ pc = "zip"
    /\ \E io_ok1, io_ok2 \in BOOLEAN :
          LET r == Builder_new(zip, io_ok1, io_ok2)
          IN  /\ zip' = r.zip
              /\ direct' = Builder_new(direct, io_ok1, io_ok2).zip
              /\ pc' = IF r.ok THEN "open" ELSE "failed"
              /\ ret' = [op |-> "Builder::new", ok |-> r.ok, args |-> << >>]
    /\ version' = "V20"
    /\ files' = << >>
    /\ metadata' = Metadata_new
    /\ toc' = Toc_new
    /\ stylesheet' = FALSE
    /\ inline_toc' = FALSE
    /\ UNCHANGED meta_calls

\* Builder::epub_version(version)
EpubVersion ==
    /\ pc = "open"
    /\ \E v \in Versions :
          /\ version' = v
          /\ ret' = [op |-> "epub_version", ok |-> TRUE, args |-> [version |-> v]]
    /\ UNCHANGED <<pc, zip, files, metadata, toc, stylesheet, inline_toc, meta_calls, direct>>

\* Builder::metadata(key, value), for the keys and values given
MetadataCall(keys, values) ==
    /\ pc = "open"
    /\ \E key \in keys, value \in values :
          /\ metadata' = metadata_set(metadata, key, value)
          /\ ret' = [op |-> "metadata", ok |-> TRUE, args |-> [key |-> key, value |-> value]]
    /\ UNCHANGED <<pc, version, zip, files, toc, stylesheet, inline_toc, direct>>

\* Builder::metadata(TocName, ..) in the builder session: the one key another handler reads
MetadataTocName ==
    /\ MetadataCall({"TocName"}, BuilderTocNames)
    /\ UNCHANGED meta_calls

\* Builder::stylesheet(content)
Stylesheet ==
    /\ pc = "open"
    /\ Len(files) < MaxFiles
    /\ \E io_ok \in BOOLEAN :
          LET r == stylesheet_set(zip, files, stylesheet, Raw("data"), io_ok)
          IN  /\ zip' = r.zip
              /\ direct' = stylesheet_set(direct, files, stylesheet, Raw("data"), io_ok).zip
              /\ files' = r.files
              /\ stylesheet' = r.stylesheet
              /\ ret' = [op |-> "stylesheet", ok |-> r.ok, args |-> << >>]
    /\ UNCHANGED <<pc, version, metadata, toc, inline_toc, meta_calls>>

\* Builder::inline_toc()
InlineToc ==
    /\ pc = "open"
    /\ Len(files) < MaxFiles
    /\ LET r == inline_toc_set(files, toc, metadata)
       IN  /\ inline_toc' = r.inline_toc
           /\ toc' = r.toc
           /\ files' = r.files
    /\ ret' = [op |-> "inline_toc", ok |-> TRUE, args |-> << >>]
    /\ UNCHANGED <<pc, version, zip, metadata, stylesheet, meta_calls, direct>>

\* Builder::add_resource(path, content, mime_type)
AddResource ==
    /\ pc = "open"
    /\ Len(files) < MaxFiles
    /\ \E path \in Paths, io_ok \in BOOLEAN :
          LET r == add_resource(zip, files, path, Raw("data"), "image/png", io_ok)
          IN  /\ zip' = r.zip
              /\ direct' = add_resource(direct, files, path, Raw("data"), "image/png", io_ok).zip
              /\ files' = r.files
              /\ ret' = [op |-> "add_resource", ok |-> r.ok,
                         args |-> IF r.ok THEN [path |-> path] ELSE << >>]
    /\ UNCHANGED <<pc, version, metadata, toc, stylesheet, inline_toc, meta_calls>>

\* Builder::add_cover_image(path, content, mime_type)
AddCoverImage ==
    /\ pc = "open"
    /\ Len(files) < MaxFiles
    /\ \E path \in Paths, io_ok \in BOOLEAN :
          LET r == add_cover_image(zip, files, path, Raw("data"), "image/png", io_ok)
          IN  /\ zip' = r.zip
              /\ direct' = add_cover_image(direct, files, path, Raw("data"), "image/png", io_ok).zip
              /\ files' = r.files
              /\ ret' = [op |-> "add_cover_image", ok |-> r.ok,
                         args |-> IF r.ok THEN [path |-> path] ELSE << >>]
    /\ UNCHANGED <<pc, version, metadata, toc, stylesheet, inline_toc, meta_calls>>

\* the EpubContent a caller builds: new(href, ..) then title, level and reftype when given
MakeContent(href, title, level, reftype) ==
    LET c0 == EpubContent_new(href, Raw("data"))
        c1 == IF title # S_empty THEN EpubContent_title(c0, title) ELSE c0
        c2 == EpubContent_level(c1, level)
    IN  IF reftype # None THEN EpubContent_reftype(c2, reftype) ELSE c2

\* Builder::add_content(content)
AddContent ==
    /\ pc = "open"
    /\ Len(files) < MaxFiles
    /\ \E href \in Paths, title \in Titles, level \in BuilderLevels,
          reftype \in BuilderReftypes, io_ok \in BOOLEAN :
          LET r == add_content(zip, files, toc, MakeContent(href, title, level, reftype), io_ok)
          IN  /\ zip' = r.zip
              /\ direct' = add_content(direct, files, toc,
                                       MakeContent(href, title, level, reftype), io_ok).zip
              /\ files' = r.files
              /\ toc' = r.toc
              /\ ret' = [op |-> "add_content", ok |-> r.ok,
                         args |-> IF r.ok
                                  THEN [href |-> href, title |-> title, level |-> level,
                                        reftype |-> reftype]
                                  ELSE << >>]
    /\ UNCHANGED <<pc, version, metadata, stylesheet, inline_toc, meta_calls>>

\* Builder::generate(to), failing at one of the points given: the session ends with it
GenerateWith(failures) ==
    /\ pc = "open"
    /\ \E fail \in failures :
          LET r == generate(zip, files, stylesheet, version, metadata, toc, inline_toc, fail)
          IN  /\ zip' = r.zip
              /\ direct' = generate(direct, files, stylesheet, version, metadata, toc,
                                    inline_toc, fail).zip
              /\ files' = r.files
              /\ stylesheet' = r.stylesheet
              /\ ret' = [op |-> "generate", ok |-> r.ok,
                         args |-> [err |-> r.err, fail |-> fail,
                                   finalize_called |-> r.finalize_called]]
    /\ pc' = "done"
    /\ UNCHANGED <<version, metadata, toc, inline_toc, meta_calls>>

\* Builder::generate(to) in the builder session
Generate == GenerateWith(BuilderGenerateFailures)

Next ==
    \/ NewZip
    \/ BuilderNew
    \/ EpubVersion
    \/ Stylesheet
    \/ InlineToc
    \/ AddResource
    \/ AddCoverImage
    \/ AddContent
    \/ Generate

Spec == Init /\ [][Next]_vars

-----------------------------------------------------------------------------
(* The metadata of one Builder: a session of metadata calls only *)

\* a Builder as Builder::new returns it, over a wrapper whose probe failed
InitOpen ==
    /\ pc = "open"
    /\ version = "V20"
    /\ zip = Builder_new(ZipCommandOrLibrary_new("zip", FALSE).result.val, TRUE, TRUE).zip
    /\ direct = Builder_new(ZipLibrary_new.val, TRUE, TRUE).zip
    /\ files = << >>
    /\ metadata = Metadata_new
    /\ toc = Toc_new
    /\ stylesheet = FALSE
    /\ inline_toc = FALSE
    /\ ret = [op |-> "Builder::new", ok |-> TRUE, args |-> << >>]
    /\ meta_calls = 0

\* Builder::metadata(key, value)
Metadata ==
    /\ meta_calls < MaxMetaCalls
    /\ MetadataCall(MetadataKinds, MetaValues)
    /\ meta_calls' = meta_calls + 1

NextMeta == Metadata

SpecMeta == InitOpen /\ [][NextMeta]_vars

-----------------------------------------------------------------------------
(* Builder::generate with every point of failure: a session of the calls   *)
(* that decide what generate writes, ended by generate                      *)

\* Builder::generate(to), failing at any of its points or at none
GenerateAny == GenerateWith(GenerateFailures)

NextGenerate ==
    \/ EpubVersion
    \/ Stylesheet
    \/ InlineToc
    \/ AddContent
    \/ GenerateAny

SpecGenerate == InitOpen /\ [][NextGenerate]_vars

-----------------------------------------------------------------------------
(* to_id alone: calls on strings over an alphabet of characters in and out  *)
(* of the ranges of is_id_char                                              *)

\* A z 9 . - _ U+E9 U+300; space / U+D7 U+37E
IdAlphabet == {65, 122, 57, 46, 45, 95, 233, 768, 32, 47, 215, 894}

\* the strings given to to_id
IdInputs ==
    UNION {[1..n -> IdAlphabet] : n \in 0..MaxIdLen} \cup {S_cafe_im_g_png}

\* to_id(s)
ToId ==
    /\ \E s \in IdInputs :
          ret' = [op |-> "to_id", ok |-> TRUE, args |-> [path |-> s, id |-> to_id(s)]]
    /\ UNCHANGED <<pc, version, zip, files, metadata, toc, stylesheet, inline_toc, meta_calls, direct>>

NextId == ToId

SpecId == InitOpen /\ [][NextId]_vars

-----------------------------------------------------------------------------
(* The table of contents alone: a session of Toc::add calls, each with the  *)
(* element of an EpubContent given a title and a level                      *)

\* (url, title) of the elements added: ("a", "A"), ("a#1", "A.1"), ("a#2", "A.2"), ("b", "B")
TocInputs ==
    {<< <<97>>, <<65>> >>,
     << <<97, 35, 49>>, <<65, 46, 49>> >>,
     << <<97, 35, 50>>, <<65, 46, 50>> >>,
     << <<98>>, <<66>> >>}

\* the levels of the elements added
TocLevels == {1, 2, 3}

\* Toc::add(element)
TocAdd ==
    /\ CountNodes(toc) < MaxTocAdds
    /\ \E in \in TocInputs, level \in TocLevels :
          LET content == EpubContent_level(
                            EpubContent_title(EpubContent_new(in[1], Raw("data")), in[2]), level)
          IN  /\ toc' = Toc_add(toc, content.toc)
              /\ ret' = [op |-> "Toc::add", ok |-> TRUE,
                         args |-> [url |-> in[1], title |-> in[2], level |-> level]]
    /\ UNCHANGED <<pc, version, zip, files, metadata, stylesheet, inline_toc, meta_calls, direct>>

\* Builder::render_toc on the forest as it is
TocRender ==
    /\ ret' = [op |-> "render_toc", ok |-> TRUE, args |-> [doc |-> render_toc(metadata, toc)]]
    /\ UNCHANGED <<pc, version, zip, files, metadata, toc, stylesheet, inline_toc, meta_calls, direct>>

NextToc ==
    \/ TocAdd
    \/ TocRender

SpecToc == InitOpen /\ [][NextToc]_vars

-----------------------------------------------------------------------------
(* What the claims read from a state *)

\* the entries the backend holds, in the order they were written
Entries == zip.inner.entries

\* the contents written under a path
Written(path) == SelectSeq(Entries, LAMBDA e : e.path = path)

HasOpf == Written(S_content_opf) # << >>
Opf == Written(S_content_opf)[1].content

HasNav == Written(S_nav_xhtml) # << >>
Nav == Written(S_nav_xhtml)[1].content

\* the call of this step returned Ok
Called(op) == ret'.op = op /\ ret'.ok /\ vars' # vars

\* the calls that register a resource
RegisteringOps == {"add_resource", "add_cover_image", "add_content", "stylesheet", "inline_toc"}

-----------------------------------------------------------------------------
(* C2 *)

\* C2: a successful add_content with an empty title, whatever its level, leaves
\* the TOC tree unchanged and still registers the content, so that it is the
\* last manifest item and the last spine reference of the manifest rendered from
\* the registry; with a non-empty title it inserts exactly one node in the TOC.
C2_UntitledStep ==
    Called("add_content") =>
        LET a == ret'.args
            o == render_opf(version', metadata', files')
        IN  /\ Len(files') = Len(files) + 1
            /\ SubSeq(files', 1, Len(files)) = files
            /\ Last(files').file = a.href
            /\ Last(o.items).href = href_of(a.href)
            /\ Last(o.items).id = to_id(a.href)
            /\ o.itemrefs # << >> /\ Last(o.itemrefs) = to_id(a.href)
            /\ a.title = S_empty => toc' = toc
            /\ a.title # S_empty => CountNodes(toc') = CountNodes(toc) + 1

C2_UntitledExcludedFromToc == [][C2_UntitledStep]_vars

\* an untitled content of level 2 was added while the TOC holds a node, and the TOC kept its one node
C2_Witness ==
    /\ ret.op = "add_content" /\ ret.ok
    /\ ret.args.title = S_empty /\ ret.args.level = 2
    /\ Len(files) = 2 /\ Last(files).itemref
    /\ CountNodes(toc) = 1

-----------------------------------------------------------------------------
(* C3 *)

\* the file and the flags a successful registering call gives the resource it registers
Registered(r) ==
    CASE r.op = "add_resource" -> [file |-> r.args.path, itemref |-> FALSE, cover |-> FALSE]
      [] r.op = "add_cover_image" -> [file |-> r.args.path, itemref |-> FALSE, cover |-> TRUE]
      [] r.op = "add_content" -> [file |-> r.args.href, itemref |-> TRUE, cover |-> FALSE]
      [] r.op = "stylesheet" -> [file |-> S_stylesheet_css, itemref |-> FALSE, cover |-> FALSE]
      [] r.op = "inline_toc" -> [file |-> S_toc_xhtml, itemref |-> TRUE, cover |-> FALSE]

\* a successful registering call puts its resource at the end of the registry and
\* leaves the resources registered before as they are
RegistersLast ==
    \A op \in RegisteringOps :
        Called(op) =>
            /\ Len(files') = Len(files) + 1
            /\ SubSeq(files', 1, Len(files)) = files
            /\ Last(files').file = Registered(ret').file
            /\ Last(files').itemref = Registered(ret').itemref
            /\ Last(files').cover = Registered(ret').cover

\* the registry changes by a successful registering call only, or by the dummy
\* stylesheet generate registers when none was set
OnlyRegisteringChanges ==
    files' # files =>
        \/ \E op \in RegisteringOps : Called(op)
        \/ /\ ret'.op = "generate" /\ ~stylesheet
           /\ files' = Append(files, Content_new(S_stylesheet_css, "text/css"))

\* the manifest written to content.opf has one item per registered resource, in
\* the order of the registry
ManifestFollowsRegistry ==
    HasOpf =>
        /\ Len(Opf.items) = Len(files)
        /\ \A i \in 1..Len(files) :
              /\ Opf.items[i].href = href_of(files[i].file)
              /\ Opf.items[i].mime = files[i].mime

\* C3: every registering call appends its resource to the registry, nothing else
\* changes the registry (but the dummy stylesheet of generate), and the manifest
\* items of content.opf are the registered resources, one item each, in the order
\* they were registered.
C3_ManifestOrder ==
    /\ [][RegistersLast /\ OnlyRegisteringChanges]_vars
    /\ [] ManifestFollowsRegistry

\* a manifest of three items was written: two different resources registered by
\* the caller, in the order of the calls, and the dummy stylesheet
C3_Witness ==
    /\ pc = "done" /\ HasOpf
    /\ Len(Opf.items) = 3
    /\ Opf.items[1].href = <<99, 47, 100>>
    /\ Opf.items[2].href = <<97, 47, 98>>
    /\ Opf.items[3].href = S_stylesheet_css

-----------------------------------------------------------------------------
(* C4 *)

\* the id of every item of the written manifest is "cover-image" for a cover and
\* the sanitized path for any other resource
ManifestIds ==
    HasOpf =>
        \A i \in 1..Len(files) :
            Opf.items[i].id = IF files[i].cover THEN S_cover_image ELSE to_id(files[i].file)

\* a resource is a cover exactly when add_cover_image registered it
CoverByCall ==
    \A op \in RegisteringOps :
        Called(op) => (Last(files').cover <=> op = "add_cover_image")

\* C4: a resource registered by add_cover_image, and no other, is marked as
\* cover; in the manifest items a cover has the id "cover-image" whatever its
\* path and every other resource has the id to_id(path).
C4_CoverIdOverride ==
    /\ [][CoverByCall]_vars
    /\ [] ManifestIds

\* a manifest with a cover of path "a/b" (id "cover-image", not "a_b") and a
\* plain resource of path "c\d" (id "c_d")
C4_Witness ==
    /\ pc = "done" /\ HasOpf
    /\ \E i, j \in 1..Len(files) :
          /\ files[i].cover /\ files[i].file = <<97, 47, 98>>
          /\ Opf.items[i].id = S_cover_image
          /\ ~files[j].cover /\ files[j].file = <<99, 92, 100>>
          /\ Opf.items[j].id = <<99, 95, 100>>

-----------------------------------------------------------------------------
(* C5 *)

\* C5: an item of the written manifest carries the cover-image property exactly
\* when its resource is the cover and the version is V30; a new Builder has the
\* version V20.
C5_CoverPropertyGating ==
    /\ (pc = "open" /\ ret.op = "Builder::new" => version = "V20")
    /\ (HasOpf =>
          \A i \in 1..Len(files) :
              Opf.items[i].properties = "cover-image" <=> (files[i].cover /\ version = "V30"))

\* a V30 manifest whose cover carries the property and whose other item does not
C5_Witness ==
    /\ pc = "done" /\ HasOpf /\ version = "V30"
    /\ \E i, j \in 1..Len(files) :
          /\ files[i].cover /\ Opf.items[i].properties = "cover-image"
          /\ ~files[j].cover /\ Opf.items[j].properties = ""

\* a V20 manifest with a cover, which carries no property
C5_WitnessV20 ==
    /\ pc = "done" /\ HasOpf /\ version = "V20"
    /\ \E i \in 1..Len(files) : files[i].cover /\ Opf.items[i].properties = ""

-----------------------------------------------------------------------------
(* C6 *)

IsSpineMember(content) == content.itemref

\* the spine references of the written manifest are the ids of the spine members
\* of the registry, in registry order
SpineFollowsRegistry ==
    HasOpf =>
        LET members == SelectSeq(files, IsSpineMember)
        IN  /\ Len(Opf.itemrefs) = Len(members)
            /\ \A k \in 1..Len(members) :
                  Opf.itemrefs[k] = IF members[k].cover THEN S_cover_image
                                    ELSE to_id(members[k].file)

\* add_content and inline_toc register spine members; add_resource,
\* add_cover_image and stylesheet register resources outside the spine
SpineByCall ==
    \A op \in RegisteringOps :
        Called(op) => (Last(files').itemref <=> op \in {"add_content", "inline_toc"})

\* C6: the spine references are the ids of the registered spine members, in
\* registry order; the spine members are the resources of add_content and the
\* page of inline_toc, which takes the place in the registry (hence in the spine)
\* of the moment inline_toc was called.
C6_SpineRefs ==
    /\ [][SpineByCall]_vars
    /\ [][Called("inline_toc") => files' = Append(files, inline_toc_file(metadata))]_vars
    /\ [] SpineFollowsRegistry

\* inline_toc was called before a content: the page is first in the spine, and the
\* stylesheet registered after them is no part of it
C6_Witness ==
    /\ pc = "done" /\ HasOpf
    /\ Len(files) = 3
    /\ files[1].file = S_toc_xhtml /\ files[2].itemref /\ ~files[3].itemref
    /\ Opf.itemrefs = <<to_id(S_toc_xhtml), <<99, 95, 100>> >>

\* inline_toc was called after a content: the page is last in the spine
C6_WitnessLast ==
    /\ pc = "done" /\ HasOpf
    /\ Opf.itemrefs = << <<97, 95, 98>>, to_id(S_toc_xhtml) >>

-----------------------------------------------------------------------------
(* C7 *)

HasReferenceKind(content) == content.reftype # None

HasReferenceKindAndTitle(content) == content.reftype # None /\ content.title # S_empty

\* the guide of the written manifest holds one reference, in registry order, for
\* each resource of the registry that satisfies Test
GuideIsOf(Test(_)) ==
    LET refs == SelectSeq(files, Test)
    IN  /\ Len(Opf.guide) = Len(refs)
        /\ \A k \in 1..Len(refs) :
              /\ Opf.guide[k].reftype = guide_reftype(refs[k].reftype)
              /\ refs[k].reftype = "Text" => Opf.guide[k].reftype = "text"
              /\ refs[k].reftype = "Toc" => Opf.guide[k].reftype = "toc"
              /\ Opf.guide[k].title = escape_quote(encode_text(refs[k].title))
              /\ Opf.guide[k].href = refs[k].file

\* C7 as stated: the guide holds a reference for each resource that has a
\* reference kind and a non-empty title, and for no other resource.
C7_GuideOnlyTitled == HasOpf => GuideIsOf(HasReferenceKindAndTitle)

\* C7, amended: the guide holds one reference {guide token, escaped title, href}
\* for each registered resource that has a reference kind, whether its title is
\* empty or not, and none for a resource without a reference kind; the
\* references are in registry order, use the guide tokens and are written under
\* V20 and under V30.
C7_GuideRefs == HasOpf => GuideIsOf(HasReferenceKind)

\* a V20 manifest whose guide holds a reference with an empty title, for a
\* content given a reference kind and no title, and the reference of a titled one
C7_Witness ==
    /\ pc = "done" /\ HasOpf /\ version = "V20"
    /\ Len(Opf.guide) = 2
    /\ Opf.guide[1].title = S_empty /\ Opf.guide[1].reftype = "text"
    /\ Opf.guide[2].title = S_lt \o <<65>> \o S_quot

\* a V30 manifest with a guide reference
C7_WitnessV30 ==
    /\ pc = "done" /\ HasOpf /\ version = "V30"
    /\ Len(Opf.guide) = 1 /\ Opf.guide[1].reftype = "toc"

-----------------------------------------------------------------------------
(* C8 *)

\* C8: the landmarks written to nav.xhtml are empty under V20; under V30 they
\* hold one entry, in registry order, for each registered resource that has a
\* reference kind and a non-empty title, with the landmarks token (Text gives
\* "bodymatter"), and none for a resource whose title is empty.
C8_LandmarksGating ==
    HasNav =>
        LET marks == SelectSeq(files, HasReferenceKindAndTitle)
        IN  /\ version = "V20" => Nav.landmarks = << >>
            /\ version = "V30" =>
                  /\ Len(Nav.landmarks) = Len(marks)
                  /\ \A k \in 1..Len(marks) :
                        /\ Nav.landmarks[k].reftype = landmark_reftype(marks[k].reftype)
                        /\ marks[k].reftype = "Text" => Nav.landmarks[k].reftype = "bodymatter"
                        /\ Nav.landmarks[k].href = marks[k].file
                        /\ Nav.landmarks[k].title = marks[k].title

\* under V30, a titled Text content gives the landmark "bodymatter" and the guide
\* reference "text", while an untitled Text content gives no landmark
C8_Witness ==
    /\ pc = "done" /\ HasNav /\ HasOpf /\ version = "V30"
    /\ Len(files) = 3
    /\ files[1].reftype = "Text" /\ files[1].title = S_empty
    /\ files[2].reftype = "Text" /\ files[2].title # S_empty
    /\ Len(Nav.landmarks) = 1 /\ Nav.landmarks[1].reftype = "bodymatter"
    /\ Len(Opf.guide) = 2 /\ Opf.guide[2].reftype = "text"

\* under V20, a titled Text content gives no landmark
C8_WitnessV20 ==
    /\ pc = "done" /\ HasNav /\ version = "V20"
    /\ \E i \in 1..Len(files) : files[i].reftype = "Text" /\ files[i].title # S_empty
    /\ Nav.landmarks = << >>

-----------------------------------------------------------------------------
(* C9 *)

\* the key of each multi-valued field
MultiValued == {"Author", "Subject", "Description"}

\* the list of a multi-valued field
ListOf(md, key) ==
    CASE key = "Author" -> md.author
      [] key = "Subject" -> md.subject
      [] key = "Description" -> md.description

\* the metadata without the field of a key
Others(md, key) ==
    CASE key = "Author" -> [md EXCEPT !.author = << >>]
      [] key = "Subject" -> [md EXCEPT !.subject = << >>]
      [] key = "Description" -> [md EXCEPT !.description = << >>]
      [] key = "Title" -> [md EXCEPT !.title = S_empty]
      [] key = "Lang" -> [md EXCEPT !.lang = S_empty]
      [] key = "Generator" -> [md EXCEPT !.generator = S_empty]
      [] key = "TocName" -> [md EXCEPT !.toc_name = S_empty]
      [] key = "License" -> [md EXCEPT !.license = NoLicense]

C9_Step ==
    Called("metadata") =>
        LET key == ret'.args.key
            value == ret'.args.value
        IN  /\ Others(metadata', key) = Others(metadata, key)
            /\ key \in MultiValued =>
                  /\ value = S_empty => ListOf(metadata', key) = << >>
                  /\ value # S_empty => ListOf(metadata', key) = Append(ListOf(metadata, key), value)

C9_WitnessThree ==
    /\ meta_calls = 3
    /\ metadata.author = << <<120>>, <<121>>, <<120>> >>

-----------------------------------------------------------------------------
(* C10 *)

\* the strategy a variant of the wrapper holds
StrategyOf(tag) == IF tag = "Command" THEN "ZipCommand" ELSE "ZipLibrary"

\* ZipCommandOrLibrary::new probes once; with the probe succeeding the wrapper
\* is the Command variant, with the probe failing it is the Library variant over
\* a fresh ZipLibrary, constructed once, and new returns Ok
C10_Construction ==
    (ret'.op = "ZipCommandOrLibrary::new" /\ pc = "start") =>
        LET a == ret'.args
        IN  /\ a.probes = 1
            /\ a.probe_ok = a.available
            /\ ret'.ok /\ pc' = "zip"
            /\ a.available =>
                  zip'.tag = "Command" /\ zip'.inner.kind = "ZipCommand" /\ a.library_news = 0
            /\ ~a.available =>
                  /\ zip'.tag = "Library" /\ a.library_news = 1
                  /\ zip'.inner = ZipLibrary_new.val

\* every entry and the output of the wrapper were written by the strategy of its variant
C10_Delegated ==
    zip.tag # "None" =>
        /\ zip.inner.kind = StrategyOf(zip.tag)
        /\ \A i \in 1..Len(Entries) : Entries[i].by = StrategyOf(zip.tag)
        /\ zip.inner.finalized => zip.inner.finalized_by = StrategyOf(zip.tag)

\* C10: constructing the wrapper probes the ZipCommand once; the wrapper is the
\* Command variant if the probe succeeds and the Library variant over a fresh
\* ZipLibrary if it fails, in which case new still returns Ok; the variant never
\* changes afterwards and every write_file and generate is done by its strategy.
C10_BackendSelection ==
    /\ [][C10_Construction]_vars
    /\ [][zip.tag # "None" => zip'.tag = zip.tag]_vars
    /\ [] C10_Delegated

\* a session over the Library variant, chosen after the probe failed, whose five
\* entries and output were all written by the ZipLibrary
C10_Witness ==
    /\ pc = "done" /\ ret.op = "generate" /\ ret.ok
    /\ zip.tag = "Library" /\ zip.inner.finalized /\ zip.inner.finalized_by = "ZipLibrary"
    /\ Len(Entries) >= 5
    /\ \A i \in 1..Len(Entries) : Entries[i].by = "ZipLibrary"

\* a session over the Command variant, chosen after the probe succeeded
C10_WitnessCommand ==
    /\ pc = "done" /\ ret.op = "generate" /\ ret.ok
    /\ zip.tag = "Command" /\ zip.inner.finalized_by = "ZipCommand"

-----------------------------------------------------------------------------
(* C1 *)

RECURSIVE FlatFrom(_, _, _)
\* the nodes of a forest in depth-first order, a parent before its children and
\* siblings in their order, each with the position of its parent in that
\* sequence (0 for a root); `base` is the number of nodes listed before
FlatFrom(elements, parent, base) ==
    IF elements = << >> THEN << >>
    ELSE LET h == Head(elements)
             sub == FlatFrom(h.children, base + 1, base + 1)
         IN  <<[url |-> h.url, title |-> h.title, level |-> h.level, parent |-> parent]>>
             \o sub \o FlatFrom(Tail(elements), parent, base + 1 + Len(sub))

Flat(elements) == FlatFrom(elements, 0, 0)

\* the positions of the nodes of a level
AtLevel(F, level) == {i \in 1..Len(F) : F[i].level = level}

Max(S) == CHOOSE m \in S : \A n \in S : n <= m

\* no add so far has skipped a level: the first level is 1 and each level is at
\* most one more than the level of the add before
WellFormed(F) ==
    /\ F # << >> => F[1].level = 1
    /\ \A i \in 2..Len(F) : F[i].level <= F[i - 1].level + 1

\* an add leaves every node where it is and lists the new node last: the
\* depth-first order is the order of the adds
AddKeepsOrder ==
    Called("Toc::add") =>
        LET a == ret'.args
        IN  /\ Len(Flat(toc')) = Len(Flat(toc)) + 1
            /\ SubSeq(Flat(toc'), 1, Len(Flat(toc))) = Flat(toc)
            /\ Last(Flat(toc')).url = a.url
            /\ Last(Flat(toc')).title = a.title
            /\ Last(Flat(toc')).level = a.level

\* a node added with level 1 is a new root, after all the roots
AddLevelOne ==
    (Called("Toc::add") /\ ret'.args.level = 1) =>
        toc' = Append(toc, [url |-> ret'.args.url, title |-> ret'.args.title,
                            level |-> 1, children |-> << >>])

\* a node added with a level L > 1 is the last child of the most recently added node of level L - 1
AddUnderLastOfLevelAbove ==
    (Called("Toc::add") /\ ret'.args.level > 1 /\ AtLevel(Flat(toc), ret'.args.level - 1) # {}) =>
        Last(Flat(toc')).parent = Max(AtLevel(Flat(toc), ret'.args.level - 1))

\* the four adds (1,a,A), (2,a#1,A.1), (2,a#2,A.2), (1,b,B) give the roots a and b,
\* a with the children A.1 and A.2 in that order and b with none
ExampleForest ==
    LET F == Flat(toc)
    IN  (/\ Len(F) = 4
         /\ F[1].level = 1 /\ F[1].url = <<97>> /\ F[1].title = <<65>>
         /\ F[2].level = 2 /\ F[2].url = <<97, 35, 49>> /\ F[2].title = <<65, 46, 49>>
         /\ F[3].level = 2 /\ F[3].url = <<97, 35, 50>> /\ F[3].title = <<65, 46, 50>>
         /\ F[4].level = 1 /\ F[4].url = <<98>> /\ F[4].title = <<66>>)
        => toc = <<[url |-> <<97>>, title |-> <<65>>, level |-> 1,
                    children |-> <<[url |-> <<97, 35, 49>>, title |-> <<65, 46, 49>>,
                                    level |-> 2, children |-> << >>],
                                   [url |-> <<97, 35, 50>>, title |-> <<65, 46, 50>>,
                                    level |-> 2, children |-> << >>]>>],
                   [url |-> <<98>>, title |-> <<66>>, level |-> 1, children |-> << >>]>>

\* C1 as stated: for any sequence of adds, a node of level 1 becomes a new root
\* after all roots and a node of level L > 1 becomes the last child of the most
\* recently added node of level L - 1.
C1_NestingAnySequence ==
    [][AddKeepsOrder /\ AddLevelOne /\ AddUnderLastOfLevelAbove]_vars

\* C1, amended: for any sequence of adds no node is moved or removed and a node
\* of level 1 becomes a new root after all roots; as long as no add has skipped
\* a level, a node of level L > 1 becomes the last child of the most recently
\* added node of level L - 1; the four adds of the example give the forest of
\* the example.
C1_NestingLaw ==
    /\ [][AddKeepsOrder /\ AddLevelOne]_vars
    /\ [][WellFormed(Flat(toc')) => AddUnderLastOfLevelAbove]_vars
    /\ [] ExampleForest

\* the forest of the example, after its fourth add
C1_Witness ==
    /\ ret.op = "Toc::add" /\ ret.args.level = 1 /\ ret.args.url = <<98>>
    /\ Len(toc) = 2
    /\ toc[1].url = <<97>> /\ Len(toc[1].children) = 2
    /\ toc[1].children[1].title = <<65, 46, 49>>
    /\ toc[1].children[2].title = <<65, 46, 50>>
    /\ toc[2].url = <<98>> /\ toc[2].children = << >>

-----------------------------------------------------------------------------
(* C11 *)

\* C11: in a session whose probe failed and whose wrapper fell back, the
\* wrapper's strategy holds, after every call, the same entries in the same
\* order, and puts out the same archive, as the ZipLibrary of a session that
\* uses the embedded-library strategy directly and is given the same calls.
C11_FallbackTransparency ==
    zip.tag = "Library" =>
        /\ zip.inner.entries = direct.entries
        /\ zip.inner.finalized = direct.finalized
        /\ zip.inner.archive = direct.archive
        /\ zip.inner = direct

\* a generated session over the fallback: its eight entries and its archive
\* are those of the direct session
C11_Witness ==
    /\ pc = "done" /\ ret.op = "generate" /\ ret.ok
    /\ zip.tag = "Library" /\ inline_toc
    /\ Len(direct.entries) = 8 /\ zip.inner.entries = direct.entries
    /\ Len(direct.archive) = 9 /\ zip.inner.archive = direct.archive

-----------------------------------------------------------------------------
(* C12 *)

\* the positions of the marker in a sequence of entries
MarkerPositions(entries) == {i \in 1..Len(entries) : entries[i].path = S_mimetype}

\* the archive of a finalized strategy begins with the marker, stored, and
\* holds it nowhere else; the entries written follow it in their order
MarkerFirst(s) ==
    /\ MarkerPositions(s.entries) = {}
    /\ (s.finalized /\ s.entries # << >>) =>
          /\ MarkerPositions(s.archive) = {1}
          /\ s.archive[1].stored
          /\ Len(s.archive) = Len(s.entries) + 1
          /\ \A i \in 1..Len(s.entries) :
                /\ s.archive[i + 1].path = s.entries[i].path
                /\ s.archive[i + 1].content = s.entries[i].content

\* C12: the Builder never passes the marker to write_file, and for either
\* strategy the archive of a successful generate after at least one write_file
\* has the marker as its first entry, stored without compression, and only there.
C12_MarkerEntry ==
    /\ MarkerFirst(zip.inner)
    /\ MarkerFirst(direct)

\* a generated session over the external-tool strategy whose archive begins
\* with the stored marker, followed by container.xml
C12_Witness ==
    /\ pc = "done" /\ ret.op = "generate" /\ ret.ok
    /\ zip.tag = "Command" /\ zip.inner.finalized
    /\ Len(zip.inner.archive) >= 7
    /\ zip.inner.archive[1].path = S_mimetype /\ zip.inner.archive[1].stored
    /\ zip.inner.archive[2].path = S_container_xml /\ ~zip.inner.archive[2].stored

-----------------------------------------------------------------------------
(* C13 *)

\* how many entries were written under a path
TimesWritten(path) == Len(Written(path))

\* C13: after a successful generate, whatever the version, content.opf, toc.ncx
\* and nav.xhtml have each been written exactly once, and toc.xhtml has been
\* written once if inline_toc was called on the builder and not at all
\* otherwise; none of the four is written before generate.
C13_GeneratedDocuments ==
    /\ (pc = "done" /\ ret.op = "generate" /\ ret.ok) =>
          /\ TimesWritten(S_content_opf) = 1
          /\ TimesWritten(S_toc_ncx) = 1
          /\ TimesWritten(S_nav_xhtml) = 1
          /\ TimesWritten(S_OEBPS_toc_xhtml) = (IF inline_toc THEN 1 ELSE 0)
    /\ pc = "open" =>
          \A path \in {S_content_opf, S_toc_ncx, S_nav_xhtml, S_OEBPS_toc_xhtml} :
              TimesWritten(path) = 0

\* a generated V30 session in which inline_toc was called: all four documents
C13_Witness ==
    /\ pc = "done" /\ ret.op = "generate" /\ ret.ok
    /\ version = "V30" /\ inline_toc
    /\ TimesWritten(S_content_opf) = 1 /\ TimesWritten(S_OEBPS_toc_xhtml) = 1

\* a generated V20 session in which inline_toc was not called: no toc.xhtml
C13_WitnessNoInline ==
    /\ pc = "done" /\ ret.op = "generate" /\ ret.ok
    /\ version = "V20" /\ ~inline_toc /\ Len(files) = 3
    /\ TimesWritten(S_nav_xhtml) = 1 /\ TimesWritten(S_OEBPS_toc_xhtml) = 0

-----------------------------------------------------------------------------
(* C14 *)

\* characters that the allow-list names: the ASCII letters and digits, '.',
\* '-', '_', and of the listed ranges e-acute (U+E9) and a combining grave
\* accent (U+300)
C14_Allowed == (65..90) \cup (97..122) \cup (48..57) \cup {46, 45, 95} \cup {233, 768}

\* characters outside the allow-list: space, '/', the multiplication sign
\* (U+D7) between two listed ranges and the Greek question mark (U+37E)
\* between two others
C14_NotAllowed == {32, 47, 215, 894}

\* C14: for every input, to_id returns a string of the same length in which
\* each allow-listed character stands unchanged at its position and each other
\* character is replaced by '_'; the output is a function of the input alone.
C14_IdSanitizer ==
    ret.op = "to_id" =>
        LET path == ret.args.path
            id == ret.args.id
        IN  /\ Len(id) = Len(path)
            /\ \A i \in 1..Len(path) :
                  /\ path[i] \in C14_Allowed => id[i] = path[i]
                  /\ path[i] \in C14_NotAllowed => id[i] = 95
                  /\ path[i] \in C14_Allowed \cup C14_NotAllowed
            /\ \A i \in 1..Len(id) : id[i] \notin C14_NotAllowed

\* the example of the specification: "café/im g.png" becomes "café_im_g.png"
C14_Witness ==
    /\ ret.op = "to_id"
    /\ ret.args.path = S_cafe_im_g_png
    /\ ret.args.id = << 99, 97, 102, 233, 95, 105, 109, 95, 103, 46, 112, 110, 103 >>

\* an input of characters outside the allow-list only: " /" becomes "__"
C14_WitnessReplaced ==
    /\ ret.op = "to_id"
    /\ ret.args.path = <<32, 47>>
    /\ ret.args.id = <<95, 95>>

-----------------------------------------------------------------------------
(* C15 *)

\* the navigation points list the nodes of the forest once each, in depth-first
\* order, the k-th with the number k
NumberedDepthFirst(points, elements) ==
    LET F == Flat(elements)
    IN  /\ Len(points) = CountNodes(elements)
        /\ Len(points) = Len(F)
        /\ \A k \in 1..Len(points) :
              /\ points[k].sequence_number = k
              /\ points[k].url = F[k].url
              /\ points[k].title = F[k].title
              \* a parent is listed before its child
              /\ F[k].parent < k

\* C15: the navigation points rendered for toc.ncx list every node of the
\* forest exactly once, a parent before its children and siblings in their
\* order, and the k-th listed node has the sequence number k; rendering the
\* same forest again gives the same points.
C15_FlatNavigationPoints ==
    /\ [] (ret.op = "render_toc" => NumberedDepthFirst(ret.args.doc.nav_points, toc))
    /\ [][(ret.op = "render_toc" /\ ret'.op = "render_toc") =>
             ret'.args.doc.nav_points = ret.args.doc.nav_points]_vars

\* the points of the example forest: a, a#1, a#2, b numbered 1 to 4
C15_Witness ==
    /\ ret.op = "render_toc"
    /\ Len(toc) = 2 /\ Len(toc[1].children) = 2
    /\ ret.args.doc.nav_points =
          <<[url |-> <<97>>, title |-> <<65>>, sequence_number |-> 1],
            [url |-> <<97, 35, 49>>, title |-> <<65, 46, 49>>, sequence_number |-> 2],
            [url |-> <<97, 35, 50>>, title |-> <<65, 46, 50>>, sequence_number |-> 3],
            [url |-> <<98>>, title |-> <<66>>, sequence_number |-> 4]>>

-----------------------------------------------------------------------------
(* C16 *)

\* the paths of a sequence of entries, in order
EntryPaths(entries) == [i \in 1..Len(entries) |-> entries[i].path]

\* "OEBPS/stylesheet.css"
OEBPS_stylesheet_css == PathJoin(S_OEBPS, S_stylesheet_css)

\* Builder::new writes container.xml, then the display-options file, into a
\* backend that holds no entry yet
NewWritesBoilerplate ==
    (ret'.op = "Builder::new" /\ ret'.ok /\ pc = "zip") =>
        /\ Entries = << >>
        /\ EntryPaths(Entries') = <<S_container_xml, S_ibooks_xml>>

\* each successful add_resource, add_cover_image, add_content and stylesheet
\* call writes one entry, OEBPS/<path>, after the entries written before
AddWritesOne ==
    /\ \A op \in {"add_resource", "add_cover_image"} :
          Called(op) =>
              EntryPaths(Entries') = Append(EntryPaths(Entries), PathJoin(S_OEBPS, ret'.args.path))
    /\ Called("add_content") =>
          EntryPaths(Entries') = Append(EntryPaths(Entries), PathJoin(S_OEBPS, ret'.args.href))
    /\ Called("stylesheet") =>
          EntryPaths(Entries') = Append(EntryPaths(Entries), OEBPS_stylesheet_css)

\* epub_version and inline_toc write nothing
OthersWriteNothing ==
    (ret'.op \in {"epub_version", "inline_toc"}) => Entries' = Entries

\* a successful generate writes an empty stylesheet.css if none was set, then
\* content.opf, toc.ncx, nav.xhtml, then toc.xhtml if the inline TOC is enabled,
\* and finalizes the backend holding all of them
GenerateWritesInOrder ==
    (ret'.op = "generate" /\ ret'.ok /\ pc = "open") =>
        /\ EntryPaths(Entries') =
              EntryPaths(Entries)
              \o (IF ~stylesheet THEN <<OEBPS_stylesheet_css>> ELSE << >>)
              \o <<S_content_opf, S_toc_ncx, S_nav_xhtml>>
              \o (IF inline_toc THEN <<S_OEBPS_toc_xhtml>> ELSE << >>)
        /\ SubSeq(Entries', 1, Len(Entries)) = Entries
        /\ ~stylesheet => Entries'[Len(Entries) + 1].content = Raw("")
        /\ ~zip.inner.finalized /\ zip'.inner.finalized
        /\ zip'.inner.archive = Strategy_archive(Entries')

\* the two boilerplate entries are the first of an open or generated session,
\* and the backend is finalized only by a successful generate
BoilerplateFirst ==
    /\ pc \in {"open", "done"} =>
          /\ Len(Entries) >= 2
          /\ SubSeq(EntryPaths(Entries), 1, 2) = <<S_container_xml, S_ibooks_xml>>
    /\ zip.inner.finalized => (pc = "done" /\ ret.op = "generate" /\ ret.ok)

\* C16: the backend is given container.xml, then the display-options file, by
\* Builder::new before any other entry; then one OEBPS/<path> entry for each
\* add_resource, add_cover_image, add_content and stylesheet call, in the order
\* of the calls; then by generate an empty OEBPS/stylesheet.css if and only if
\* no stylesheet was set, OEBPS/content.opf, OEBPS/toc.ncx, OEBPS/nav.xhtml and,
\* when the inline TOC is enabled, OEBPS/toc.xhtml; the backend's generate is
\* called only after all of these writes.
C16_EntryWriteOrder ==
    /\ [][NewWritesBoilerplate /\ AddWritesOne /\ OthersWriteNothing
          /\ GenerateWritesInOrder]_vars
    /\ [] BoilerplateFirst

\* a generated session: the boilerplate, a content, the dummy stylesheet, the
\* three documents and the inline TOC page, in this order
C16_Witness ==
    /\ pc = "done" /\ ret.op = "generate" /\ ret.ok /\ zip.inner.finalized
    /\ EntryPaths(Entries) =
          <<S_container_xml, S_ibooks_xml, PathJoin(S_OEBPS, <<97, 47, 98>>),
            OEBPS_stylesheet_css, S_content_opf, S_toc_ncx, S_nav_xhtml, S_OEBPS_toc_xhtml>>
    /\ Entries[4].content = Raw("")

\* a generated session in which the stylesheet was set by the caller before a
\* resource was added: no dummy stylesheet is written
C16_WitnessStylesheetSet ==
    /\ pc = "done" /\ ret.op = "generate" /\ ret.ok
    /\ EntryPaths(Entries) =
          <<S_container_xml, S_ibooks_xml, OEBPS_stylesheet_css,
            PathJoin(S_OEBPS, <<99, 92, 100>>), S_content_opf, S_toc_ncx, S_nav_xhtml>>
    /\ Entries[3].content = Raw("data")

-----------------------------------------------------------------------------
(* C17 *)

\* the entries a generate without failure writes, in order
GenerateSteps(st, inline) ==
    (IF ~st THEN <<OEBPS_stylesheet_css>> ELSE << >>)
    \o <<S_content_opf, S_toc_ncx, S_nav_xhtml>>
    \o (IF inline THEN <<S_OEBPS_toc_xhtml>> ELSE << >>)

\* the position among these entries of the one whose rendering or write fails
\* at the point `fail`, 0 if generate does not get to that point
FailingStep(st, inline, fail) ==
    LET dummy == IF st THEN 0 ELSE 1
        ndocs == IF inline THEN 4 ELSE 3
    IN  IF fail.at = 1 THEN dummy
        ELSE IF fail.at \in 2..5 /\ fail.at - 1 <= ndocs THEN dummy + fail.at - 1
        ELSE 0

\* a generate in which a rendering or a write fails returns that error, has
\* written the entries before the failing one and no other, and does not call
\* the backend's generate; a generate in which none fails has written all its
\* entries, calls the backend's generate and returns what that returns
GenerateAborts ==
    (ret'.op = "generate" /\ pc = "open") =>
        LET a == ret'.args
            steps == GenerateSteps(stylesheet, inline_toc)
            failing == FailingStep(stylesheet, inline_toc, a.fail)
        IN  /\ pc' = "done"
            /\ failing > 0 =>
                  /\ ~ret'.ok /\ a.err = a.fail.kind
                  /\ EntryPaths(Entries') = EntryPaths(Entries) \o SubSeq(steps, 1, failing - 1)
                  /\ ~a.finalize_called
                  /\ ~zip'.inner.finalized /\ zip'.inner.archive = << >>
            /\ failing = 0 =>
                  /\ EntryPaths(Entries') = EntryPaths(Entries) \o steps
                  /\ a.finalize_called
                  /\ ret'.ok = (a.fail.at # 6)
                  /\ ret'.ok => (a.err = "none" /\ zip'.inner.finalized)
                  /\ ~ret'.ok => (a.err = "generate" /\ ~zip'.inner.finalized)

\* C17: if a rendering or a write_file inside generate fails, generate returns
\* that error, writes no later entry and does not call the backend's generate;
\* the backend's generate is called only when every step before it succeeded,
\* and its failure is returned to the caller; nothing is written afterwards.
C17_FatalErrorsAbort ==
    /\ [][GenerateAborts]_vars
    /\ [][pc = "done" => (pc' = "done" /\ zip' = zip)]_vars
    /\ [] (zip.inner.finalized => (ret.op = "generate" /\ ret.ok /\ ret.args.finalize_called))

\* the rendering of toc.ncx failed: content.opf is the last entry written and
\* the backend's generate was not called
C17_Witness ==
    /\ pc = "done" /\ ret.op = "generate" /\ ~ret.ok
    /\ ret.args.fail = [at |-> 3, kind |-> "render"] /\ ret.args.err = "render"
    /\ Entries[Len(Entries)].path = S_content_opf
    /\ ~ret.args.finalize_called /\ ~zip.inner.finalized

\* the write of toc.xhtml failed in a session with the inline TOC
C17_WitnessLastWrite ==
    /\ pc = "done" /\ ret.op = "generate" /\ ~ret.ok /\ inline_toc
    /\ ret.args.fail = [at |-> 5, kind |-> "write"] /\ ret.args.err = "write"
    /\ Entries[Len(Entries)].path = S_nav_xhtml
    /\ ~ret.args.finalize_called

\* the write of the dummy stylesheet failed: generate wrote nothing
C17_WitnessFirstWrite ==
    /\ pc = "done" /\ ret.op = "generate" /\ ~ret.ok
    /\ ret.args.fail.at = 1 /\ ret.args.err = "write"
    /\ ~stylesheet /\ TimesWritten(OEBPS_stylesheet_css) = 0
    /\ ~ret.args.finalize_called

\* every write succeeded and the backend's generate failed
C17_WitnessFinalize ==
    /\ pc = "done" /\ ret.op = "generate" /\ ~ret.ok
    /\ ret.args.fail.at = 6 /\ ret.args.err = "generate"
    /\ ret.args.finalize_called /\ ~zip.inner.finalized
    /\ Entries[Len(Entries)].path = S_nav_xhtml

-----------------------------------------------------------------------------
(* C18 *)

\* the calls that write an entry before they register a resource
WritingAdds == {"add_resource", "add_cover_image", "add_content", "stylesheet"}

\* a call of add_resource, add_cover_image, add_content or stylesheet whose
\* write_file fails returns the error and changes nothing
FailedAddChangesNothing ==
    (ret'.op \in WritingAdds /\ ~ret'.ok) =>
        /\ UNCHANGED <<files, toc, metadata, version, stylesheet, inline_toc>>
        /\ Entries' = Entries
        /\ pc' = pc

\* every registered resource but the page of the inline TOC, which generate
\* writes, has its entry in the backend
RegisteredWereWritten ==
    pc = "open" =>
        LET written == SelectSeq(files, LAMBDA f : f # inline_toc_file(metadata))
        IN  /\ Len(Entries) = 2 + Len(written)
            /\ \A i \in 1..Len(written) :
                  Entries[2 + i].path = PathJoin(S_OEBPS, written[i].file)

\* the manifest, the spine and the guide of a generated session list the
\* registered resources and no other
ManifestOfRegistered ==
    HasOpf =>
        /\ Len(Opf.items) = Len(files)
        /\ Len(Opf.itemrefs) = Len(SelectSeq(files, LAMBDA f : f.itemref))
        /\ Len(Opf.guide) = Len(SelectSeq(files, LAMBDA f : f.reftype # None))

\* C18: when write_file fails inside add_resource, add_cover_image, add_content
\* or stylesheet, the call returns the error and leaves the registry, the TOC,
\* the metadata, the version and the stylesheet flag as they were, so that the
\* registry holds only resources whose entry was written and the manifest, the
\* spine and the guide list only those.
C18_FailedAddFrame ==
    /\ [][FailedAddChangesNothing]_vars
    /\ [] RegisteredWereWritten
    /\ [] ManifestOfRegistered

\* an add_content with a title failed after a resource was registered: the
\* registry holds that resource alone and the TOC is empty
C18_Witness ==
    /\ pc = "open" /\ ret.op = "add_content" /\ ~ret.ok
    /\ Len(files) = 1 /\ ~files[1].itemref /\ toc = << >>
    /\ Len(Entries) = 3

\* a generated session to which no resource was added with success: the
\* manifest lists the dummy stylesheet alone
C18_WitnessGenerated ==
    /\ pc = "done" /\ ret.op = "generate" /\ ret.ok
    /\ HasOpf /\ Len(Opf.items) = 1 /\ Len(files) = 1
    /\ files[1].file = S_stylesheet_css

=============================================================================
